---- MODULE Spec2Model ----
(***************************************************************************)
(* A model of async-ratatui: the Tui run loop (src/src/lib.rs), the       *)
(* entity physics (src/src/entity.rs) and the process boundary            *)
(* (src/src/main.rs).                                                      *)
(*                                                                         *)
(* f64 values are kept in fixed point, in hundredths: 1.0 is 100, the      *)
(* balloon's gravity 0.10 is 10 and the brick's gravity 0.75 is 75.        *)
(*                                                                         *)
(* Spec is the run from the constructed Tui to the end of the process;     *)
(* SpecPolls adds the polls whose select branch lost; SpecFairRecv and     *)
(* SpecFairInput state the fairness of select! for one branch; SpecInput   *)
(* is the input translation alone and SpecTick the physics alone.          *)
(***************************************************************************)
EXTENDS Integers, Sequences, FiniteSets, TLC

\* ------------------------------------------------------------------ bounds
\* How many Tick and Render messages the two timers put on the channel.
MaxTimer == 2
\* How many raw input events the terminal delivers during the run.
MaxRaw == 2
\* How many raw input events the terminal holds unread at one time.
MaxPending == 2
\* How many Ticks are applied to an entity followed from its commit.
MaxTicks == 5

\* The terminal heights (in rows) the run sees: it starts at 24 rows, and a
\* resize switches between the two.
Heights == {24, 23}
\* The cells (row, column) mouse events are reported at.
Cells == {<<5, 20>>, <<23, 3>>}

\* ------------------------------------------------------- fixed-point values
Fixed(n) == n * 100

\* entity.rs:30, let gravity = 0.10
BalloonGravity == 10
\* entity.rs:66, let gravity = 0.75
BrickGravity == 75

\* ---------------------------------------------------------------- entities
\* Entity::Balloon(Balloon { circle: Circle { x, y, radius: 1.0, color: Blue }, velocity_y: 0.0 })
NewBalloon(x, y) ==
    [variant |-> "Balloon",
     circle |-> [x |-> x, y |-> y, radius |-> Fixed(1), color |-> "Blue"],
     velocity_y |-> 0]

\* Entity::Brick(Brick { rectangle: Rectangle { x, y, width: 1.0, height: 1.0, color: Red }, velocity_y: 0.0 })
NewBrick(x, y) ==
    [variant |-> "Brick",
     rectangle |-> [x |-> x, y |-> y, width |-> Fixed(1), height |-> Fixed(1), color |-> "Red"],
     velocity_y |-> 0]

\* Balloon::tick with a bug: the position moves by the old velocity.
BalloonTick_OldVelocity(b) ==
    LET v == b.velocity_y + BalloonGravity
        y == b.circle.y + b.velocity_y
        bottom_y == b.circle.radius
    IN  IF y < bottom_y
        THEN [b EXCEPT !.circle.y = bottom_y, !.velocity_y = 0]
        ELSE [b EXCEPT !.circle.y = y, !.velocity_y = v]

\* impl Drawable for Balloon: tick
BalloonTick(b) ==
    LET v == b.velocity_y + BalloonGravity
        y == b.circle.y + v
        bottom_y == b.circle.radius
    IN  IF y < bottom_y
        THEN [b EXCEPT !.circle.y = bottom_y, !.velocity_y = 0]
        ELSE [b EXCEPT !.circle.y = y, !.velocity_y = v]

\* Brick::tick with a bug: the clamp leaves the velocity as it is.
BrickTick_KeepsVelocity(b) ==
    LET v == b.velocity_y + BrickGravity
        y == b.rectangle.y - v
        bottom_y == b.rectangle.height
    IN  IF y <= bottom_y
        THEN [b EXCEPT !.rectangle.y = bottom_y, !.velocity_y = v]
        ELSE [b EXCEPT !.rectangle.y = y, !.velocity_y = v]

\* impl Drawable for Brick: tick
BrickTick(b) ==
    LET v == b.velocity_y + BrickGravity
        y == b.rectangle.y - v
        bottom_y == b.rectangle.height
    IN  IF y <= bottom_y
        THEN [b EXCEPT !.rectangle.y = bottom_y, !.velocity_y = 0]
        ELSE [b EXCEPT !.rectangle.y = y, !.velocity_y = v]

\* impl Drawable for Entity: tick
EntityTick(e) ==
    IF e.variant = "Balloon" THEN BalloonTick(e) ELSE BrickTick(e)

\* Whether the tick of e clamps it: a brick is at its floor after a tick only
\* by the clamp, a balloon has velocity 0 after a tick only by the clamp.
TickClamps(e) ==
    IF e.variant = "Balloon"
    THEN BalloonTick(e).velocity_y = 0
    ELSE BrickTick(e).rectangle.y = e.rectangle.height

\* Reading an entity's position and floor, whatever its variant.
EntityX(e) == IF e.variant = "Balloon" THEN e.circle.x ELSE e.rectangle.x
EntityY(e) == IF e.variant = "Balloon" THEN e.circle.y ELSE e.rectangle.y
EntityFloor(e) == IF e.variant = "Balloon" THEN e.circle.radius ELSE e.rectangle.height

\* ---------------------------------------------------------------- messages
\* enum Message, with the stamps the model adds when a message is sent:
\* id is its place in the order of all sends, src the source that produced it
\* and n its place among the messages (raw events, for the input) of that source.
Msg(kind, row, col) ==
    [kind |-> kind, row |-> row, col |-> col, id |-> 0, src |-> "none", n |-> 0]

NoMsg == Msg("NoMsg", 0, 0)

Sources == {"tick", "frame", "input"}

\* ------------------------------------------------------------ the application model
\* Tui::new: the Model the Tui is constructed with.
InitModel ==
    [hover_pos |-> <<0, 0>>,
     entities |-> <<>>,
     hover_entity |-> NewBalloon(Fixed(0), Fixed(0)),
     fps_counter |-> 0]

\* FpsCounter::tick: one render sample recorded.
FpsTick(fps) == fps + 1

\* The outcomes of terminal.size(): a height, or SizeErr when the call fails.
SizeErr == -1
IsErr(size) == size = SizeErr

\* Tui::view: Ok (TRUE) unless terminal.size() or terminal.draw() fails; the
\* model is only read.
view(model, size, draw) == ~IsErr(size) /\ draw

\* update_Quit with a bug: quitting also clears the settled entities.
update_Quit_Clearing(model) ==
    [model |-> [model EXCEPT !.entities = <<>>], cmd |-> "Quit"]

\* update_Quit with a bug: Quit is applied like a message that changes nothing.
update_Quit_Ignored(model) ==
    [model |-> model, cmd |-> "None"]

\* Tui::update, Message::Quit: the terminate command, the model untouched.
update_Quit(model) ==
    [model |-> model, cmd |-> "Quit"]

\* update's Tick arm with a bug: the preview ticks too.
update_Tick_TicksPreview(model) ==
    [model |-> [model EXCEPT !.entities =
                    [i \in DOMAIN model.entities |-> EntityTick(model.entities[i])],
                             !.hover_entity = EntityTick(model.hover_entity)],
     cmd |-> "None"]

\* Tui::update, Message::Tick: every settled entity ticks.
update_Tick(model) ==
    [model |-> [model EXCEPT !.entities =
                    [i \in DOMAIN model.entities |-> EntityTick(model.entities[i])]],
     cmd |-> "None"]

\* Tui::update, Message::Render: one FPS sample, then view; a failure of view
\* is the error of update.
update_Render(model, size, draw) ==
    LET m1 == [model EXCEPT !.fps_counter = FpsTick(model.fps_counter)]
    IN  [model |-> m1, cmd |-> IF view(m1, size, draw) THEN "None" ELSE "Err"]

\* update's MouseLeftClick arm with a bug: the entity committed is put at the
\* front of the settled sequence.
update_MouseLeftClick_Prepends(model, message, size, rnd) ==
    IF IsErr(size)
    THEN [model |-> model, cmd |-> "Err"]
    ELSE LET x == Fixed(message.col)
             y == Fixed(size) - Fixed(message.row)
             clicked_entity == model.hover_entity
             new_entity == IF rnd THEN NewBalloon(x, y) ELSE NewBrick(x, y)
         IN  [model |-> [model EXCEPT !.entities = <<clicked_entity>> \o model.entities,
                                      !.hover_entity = new_entity],
              cmd |-> "None"]

\* update's MouseLeftClick arm with a bug: the new preview is spawned where the
\* entity just committed is.
update_MouseLeftClick_AtCommitted(model, message, size, rnd) ==
    IF IsErr(size)
    THEN [model |-> model, cmd |-> "Err"]
    ELSE LET clicked_entity == model.hover_entity
             x == EntityX(clicked_entity)
             y == EntityY(clicked_entity)
             new_entity == IF rnd THEN NewBalloon(x, y) ELSE NewBrick(x, y)
         IN  [model |-> [model EXCEPT !.entities = Append(model.entities, clicked_entity),
                                      !.hover_entity = new_entity],
              cmd |-> "None"]

\* Tui::update, Message::MouseLeftClick(row, col): the preview is cloned onto
\* the settled sequence and a new preview is spawned at the click.
update_MouseLeftClick(model, message, size, rnd) ==
    IF IsErr(size)
    THEN [model |-> model, cmd |-> "Err"]
    ELSE LET x == Fixed(message.col)
             y == Fixed(size) - Fixed(message.row)
             clicked_entity == model.hover_entity
             new_entity == IF rnd THEN NewBalloon(x, y) ELSE NewBrick(x, y)
         IN  [model |-> [model EXCEPT !.entities = Append(model.entities, clicked_entity),
                                      !.hover_entity = new_entity],
              cmd |-> "None"]

\* update_MouseHoverPos with a bug: the row is taken as the canvas y, not
\* inverted against the terminal's height.
update_MouseHoverPos_RowAsY(model, message, size) ==
    LET m1 == [model EXCEPT !.hover_pos = <<message.row, message.col>>]
        m2 == IF m1.hover_entity.variant = "Balloon"
              THEN [m1 EXCEPT !.hover_entity.circle.x = Fixed(message.col)]
              ELSE [m1 EXCEPT !.hover_entity.rectangle.x = Fixed(message.col)]
        y == Fixed(message.row)
    IN  IF IsErr(size)
        THEN [model |-> m2, cmd |-> "Err"]
        ELSE [model |-> IF m2.hover_entity.variant = "Balloon"
                        THEN [m2 EXCEPT !.hover_entity.circle.y = y]
                        ELSE [m2 EXCEPT !.hover_entity.rectangle.y = y],
              cmd |-> "None"]

\* update_MouseHoverPos with a bug: hover_pos stored as (col, row).
update_MouseHoverPos_Swapped(model, message, size) ==
    LET m1 == [model EXCEPT !.hover_pos = <<message.col, message.row>>]
        m2 == IF m1.hover_entity.variant = "Balloon"
              THEN [m1 EXCEPT !.hover_entity.circle.x = Fixed(message.col)]
              ELSE [m1 EXCEPT !.hover_entity.rectangle.x = Fixed(message.col)]
        y == Fixed(size) - Fixed(message.row)
    IN  IF IsErr(size)
        THEN [model |-> m2, cmd |-> "Err"]
        ELSE [model |-> IF m2.hover_entity.variant = "Balloon"
                        THEN [m2 EXCEPT !.hover_entity.circle.y = y]
                        ELSE [m2 EXCEPT !.hover_entity.rectangle.y = y],
              cmd |-> "None"]

\* Tui::update, Message::MouseHoverPos(row, col): hover_pos, then the preview's
\* x, then (terminal.size()? permitting) the preview's y.
update_MouseHoverPos(model, message, size) ==
    LET m1 == [model EXCEPT !.hover_pos = <<message.row, message.col>>]
        m2 == IF m1.hover_entity.variant = "Balloon"
              THEN [m1 EXCEPT !.hover_entity.circle.x = Fixed(message.col)]
              ELSE [m1 EXCEPT !.hover_entity.rectangle.x = Fixed(message.col)]
        y == Fixed(size) - Fixed(message.row)
    IN  IF IsErr(size)
        THEN [model |-> m2, cmd |-> "Err"]
        ELSE [model |-> IF m2.hover_entity.variant = "Balloon"
                        THEN [m2 EXCEPT !.hover_entity.circle.y = y]
                        ELSE [m2 EXCEPT !.hover_entity.rectangle.y = y],
              cmd |-> "None"]

\* Tui::update: the model after the message and the command (None, Quit) or Err.
\* size is what terminal.size() returns, draw whether terminal.draw() succeeds,
\* rnd what random::<bool>() returns.
update(model, message, size, draw, rnd) ==
    CASE message.kind = "Quit" -> update_Quit(model)
      [] message.kind = "Tick" -> update_Tick(model)
      [] message.kind = "Render" -> update_Render(model, size, draw)
      [] message.kind = "MouseLeftClick" -> update_MouseLeftClick(model, message, size, rnd)
      [] message.kind = "MouseHoverPos" -> update_MouseHoverPos(model, message, size)

\* ------------------------------------------------------------- raw input events
\* crossterm's Event, as far as handle_event looks at it.
KeyEvent(code, kind) ==
    [type |-> "Key", code |-> code, kind |-> kind, row |-> 0, col |-> 0, seq |-> 0]
MouseEvent(kind, cell) ==
    [type |-> "Mouse", code |-> "-", kind |-> kind, row |-> cell[1], col |-> cell[2], seq |-> 0]
OtherEvent(type) ==
    [type |-> type, code |-> "-", kind |-> "-", row |-> 0, col |-> 0, seq |-> 0]

KeyCodes == {"Esc", "Char"}
KeyKinds == {"Press", "Release", "Repeat"}
MouseKinds == {"DownLeft", "DownRight", "UpLeft", "DragLeft", "Moved", "ScrollDown"}

\* handle_event with a bug: the key's kind is not looked at, so the release
\* and the repeat of Escape quit too.
handle_event_AnyKeyKind(event) ==
    CASE event.type = "Key" ->
            IF event.code = "Esc"
            THEN <<Msg("Quit", 0, 0)>>
            ELSE <<>>
      [] event.type = "Mouse" ->
            CASE event.kind = "DownLeft" -> <<Msg("MouseLeftClick", event.row, event.col)>>
              [] event.kind = "Moved" -> <<Msg("MouseHoverPos", event.row, event.col)>>
              [] OTHER -> <<>>
      [] OTHER -> <<>>

\* Tui::handle_event: the messages the event puts on the channel, none or one.
handle_event(event) ==
    CASE event.type = "Key" ->
            IF event.kind = "Press" /\ event.code = "Esc"
            THEN <<Msg("Quit", 0, 0)>>
            ELSE <<>>
      [] event.type = "Mouse" ->
            CASE event.kind = "DownLeft" -> <<Msg("MouseLeftClick", event.row, event.col)>>
              [] event.kind = "Moved" -> <<Msg("MouseHoverPos", event.row, event.col)>>
              [] OTHER -> <<>>
      [] OTHER -> <<>>

\* ------------------------------------------------------------------- terminal
\* The terminal driver's state: the three modes enter sets, and how often each
\* of the restoring calls was made.
InitTerm ==
    [raw |-> FALSE, alt |-> FALSE, mouse |-> FALSE,
     entered |-> 0, left_alt |-> 0, disabled_mouse |-> 0, disabled_raw |-> 0]

\* The call of enter that fails, if one does.
EnterFailures == {"none", "enable_raw_mode", "execute"}

\* Tui::enter: the terminal after it, and whether it returned Ok.
enter(term, fail) ==
    CASE fail = "enable_raw_mode" ->
            [term |-> term, ok |-> FALSE]
      [] fail = "execute" ->
            [term |-> [term EXCEPT !.raw = TRUE], ok |-> FALSE]
      [] OTHER ->
            [term |-> [term EXCEPT !.raw = TRUE, !.alt = TRUE, !.mouse = TRUE,
                                   !.entered = @ + 1],
             ok |-> TRUE]

\* The call of exit that fails, if one does.
ExitFailures == {"none", "is_raw_mode_enabled", "flush", "execute", "disable_raw_mode", "show_cursor"}

\* Tui::exit: the terminal after it, and whether it returned Ok. Each call may
\* fail and `?` returns at the first that does, leaving the later ones undone
\* (a failing execute! leaves the screen and the mouse capture as they were, a
\* failing show_cursor comes after everything was restored).
exit(term, fail) ==
    IF fail = "is_raw_mode_enabled" THEN [term |-> term, ok |-> FALSE]
    ELSE IF ~term.raw THEN [term |-> term, ok |-> TRUE]
    ELSE IF fail = "flush" THEN [term |-> term, ok |-> FALSE]
    ELSE IF fail = "execute" THEN [term |-> term, ok |-> FALSE]
    ELSE LET t1 == [term EXCEPT !.alt = FALSE, !.mouse = FALSE,
                                !.left_alt = @ + 1, !.disabled_mouse = @ + 1]
             t2 == [t1 EXCEPT !.raw = FALSE, !.disabled_raw = @ + 1]
         IN  IF fail = "disable_raw_mode" THEN [term |-> t1, ok |-> FALSE]
             ELSE IF fail = "show_cursor" THEN [term |-> t2, ok |-> FALSE]
             ELSE [term |-> t2, ok |-> TRUE]

\* ---------------------------------------------------------------------- state
VARIABLES
    pc,        \* where the process is: "start" (Tui constructed, run not yet
               \* called), "loop" (inside run's loop), "returned" (run has
               \* returned, the Tui not yet dropped), "done" (the process ended)
    term,      \* the terminal driver's state
    height,    \* the terminal's height in rows
    pending,   \* the raw input events the terminal holds unread, oldest first
    channel,   \* the messages on the unbounded channel, oldest first
    model,     \* Tui.model
    result,    \* what run returned: "Running", "Ok" or "Err"
    error,     \* the error run returned: the message of the anyhow error where
               \* the code gives one, else the call that failed; "none" for none
    exit_code, \* the process's exit status once pc = "done", NoCode before
    printed,   \* what the process printed about an error as it ended: by main
               \* (application exited with error: ...) or by the panic of Drop's
               \* expect (Failed to end terminal mode: ...), and the error named
    sent,      \* how many messages were sent in all (id), how many by each timer
               \* (tick, frame), how many raw events have arrived (raw) and how
               \* many event::read has returned (read)
    applied,   \* the messages update was applied to, in the order it was
    hov,       \* the last MouseHoverPos applied with only Tick and Render applied
               \* since, with the height it saw; NoHover when there is none
    ticked,    \* one settled entity followed from its commit: how many Ticks it
               \* has had (n), how many of them clamped it (clamps), how many
               \* since the last that did (since), the entity as committed
               \* (first) and as it was before the last Tick (prev)
    dropped,   \* what the polls that lost their select have returned since, their
               \* results dropped with the JoinHandle: ready is the arrival number
               \* of the raw event the last such poll reported (0 for none), err
               \* whether one of them failed
    last       \* the loop's last step: the select branch taken, the message
               \* received, what terminal.size() returned and update's command,
               \* the raw event read, the messages put on the channel, and the
               \* model and hov as they were before the step

vars == <<pc, term, height, pending, channel, model, result, error, exit_code,
          printed, sent, applied, hov, ticked, dropped, last>>

NoCode == [code |-> "none"]
NoPrint == [by |-> "none", error |-> "none"]
NoHover == [row |-> 0, col |-> 0, h |-> 0, set |-> FALSE]
NoRaw == OtherEvent("NoRaw")
NoDropped == [ready |-> 0, err |-> FALSE]
Followed(e) == [n |-> 0, clamps |-> 0, since |-> 0, first |-> e, prev |-> e]
NoTicks == Followed(NewBalloon(Fixed(0), Fixed(0)))

NoStep ==
    [branch |-> "none", msg |-> NoMsg, cmd |-> "-", size |-> 0, raw |-> NoRaw,
     put |-> <<>>, before |-> InitModel, hov |-> NoHover]

\* UnboundedSender::send: the message, stamped, at the back of the channel.
send(ch, message) == Append(ch, message)

\* recv with a bug: the newest message is received first.
recv_Newest(ch) == [message |-> ch[Len(ch)], rest |-> SubSeq(ch, 1, Len(ch) - 1)]

\* recv with a bug: the message received stays on the channel.
recv_Peek(ch) == [message |-> Head(ch), rest |-> ch]

\* UnboundedReceiver::recv: the message at the front of the channel, taken off it.
recv(ch) == [message |-> Head(ch), rest |-> Tail(ch)]

\* What the applied log keeps of a message: its stamps and its kind.
Stamps(message) ==
    [id |-> message.id, src |-> message.src, n |-> message.n, kind |-> message.kind]

Stamp(message, src, n) == [message EXCEPT !.id = sent.id + 1, !.src = src, !.n = n]

Init ==
    /\ pc = "start"
    /\ term = InitTerm
    /\ height = 24
    /\ pending = <<>>
    /\ channel = <<>>
    /\ model = InitModel
    /\ result = "Running"
    /\ error = "none"
    /\ exit_code = NoCode
    /\ printed = NoPrint
    /\ sent = [id |-> 0, tick |-> 0, frame |-> 0, raw |-> 0, read |-> 0]
    /\ applied = <<>>
    /\ hov = NoHover
    /\ ticked = NoTicks
    /\ dropped = NoDropped
    /\ last = NoStep

\* ------------------------------------------------------------------ the run loop
\* Tui::run, up to the loop: self.enter()?
Enter ==
    /\ pc = "start"
    /\ \E fail \in EnterFailures :
          LET e == enter(term, fail)
          IN  /\ term' = e.term
              /\ pc' = IF e.ok THEN "loop" ELSE "returned"
              /\ result' = IF e.ok THEN "Running" ELSE "Err"
              /\ error' = IF e.ok THEN "none" ELSE fail
    /\ UNCHANGED <<height, pending, channel, model, exit_code, sent,
                   applied, hov, last, dropped, printed, ticked>>

\* select!: _tick = tick_interval.tick() => send(Message::Tick)
TickBranch ==
    /\ pc = "loop"
    /\ sent.tick + sent.frame < MaxTimer
    /\ LET m == Stamp(Msg("Tick", 0, 0), "tick", sent.tick + 1)
       IN  /\ channel' = send(channel, m)
           /\ sent' = [sent EXCEPT !.id = @ + 1, !.tick = @ + 1]
           /\ last' = [NoStep EXCEPT !.branch = "tick", !.put = <<m>>,
                                     !.before = model, !.hov = hov]
    /\ UNCHANGED <<pc, term, height, pending, model, result,
                   error, exit_code, applied, hov, dropped, printed, ticked>>

\* select!: _frame = frame_interval.tick() => send(Message::Render)
FrameBranch ==
    /\ pc = "loop"
    /\ sent.tick + sent.frame < MaxTimer
    /\ LET m == Stamp(Msg("Render", 0, 0), "frame", sent.frame + 1)
       IN  /\ channel' = send(channel, m)
           /\ sent' = [sent EXCEPT !.id = @ + 1, !.frame = @ + 1]
           /\ last' = [NoStep EXCEPT !.branch = "frame", !.put = <<m>>,
                                     !.before = model, !.hov = hov]
    /\ UNCHANGED <<pc, term, height, pending, model, result,
                   error, exit_code, applied, hov, dropped, printed, ticked>>

\* What hov becomes when update has been applied to message with command cmd.
HoverAfter(message, size, cmd) ==
    CASE message.kind = "MouseHoverPos" ->
            IF cmd = "None"
            THEN [row |-> message.row, col |-> message.col, h |-> size, set |-> TRUE]
            ELSE NoHover
      [] message.kind = "MouseLeftClick" -> NoHover
      [] OTHER -> hov

\* The outcomes of the calls update makes for a message of this kind: what
\* terminal.size() returns, whether terminal.draw() succeeds, what
\* random::<bool>() returns; and for the Quit arm the call of exit that fails.
SizeOutcomes(kind) ==
    IF kind \in {"Render", "MouseLeftClick", "MouseHoverPos"} THEN {height, SizeErr} ELSE {height}
DrawOutcomes(kind) == IF kind = "Render" THEN BOOLEAN ELSE {TRUE}
RandomOutcomes(kind) == IF kind = "MouseLeftClick" THEN BOOLEAN ELSE {TRUE}
ExitOutcomes(kind) == IF kind = "Quit" THEN ExitFailures ELSE {"none"}

\* select!: Some(message) = self.event_rx.recv() => match self.update(message).await?
\* with the Quit arm's self.exit()? and return.
RecvBranch ==
    /\ pc = "loop"
    /\ channel # <<>>
    /\ LET message == recv(channel).message
       IN  \E size \in SizeOutcomes(message.kind), draw \in DrawOutcomes(message.kind),
              rnd \in RandomOutcomes(message.kind), fail \in ExitOutcomes(message.kind) :
              LET u == update(model, message, size, draw, rnd)
                  e == exit(term, fail)
              IN  /\ channel' = recv(channel).rest
                  /\ model' = u.model
                  /\ applied' = Append(applied, Stamps(message))
                  /\ hov' = HoverAfter(message, size, u.cmd)
                  /\ last' = [NoStep EXCEPT !.branch = "recv", !.msg = message,
                                            !.cmd = u.cmd, !.size = size,
                                            !.before = model, !.hov = hov]
                  /\ CASE u.cmd = "Quit" ->
                            /\ term' = e.term
                            /\ pc' = "returned"
                            /\ result' = IF e.ok THEN "Ok" ELSE "Err"
                            /\ error' = IF e.ok THEN "none" ELSE fail
                       [] u.cmd = "Err" ->
                            /\ pc' = "returned"
                            /\ result' = "Err"
                            /\ error' = IF message.kind = "Render"
                                        THEN "Failed to render" ELSE "terminal.size"
                            /\ term' = term
                       [] OTHER ->
                            UNCHANGED <<pc, result, error, term>>
    /\ UNCHANGED <<height, pending, exit_code, sent, dropped, printed, ticked>>

\* The input branch with a bug: a mouse move is written to the model's pointer
\* position as it is read, besides its message being sent.
InputReady_WritesModel ==
    /\ pc = "loop"
    /\ pending # <<>>
    /\ LET event == Head(pending)
           put == [i \in DOMAIN handle_event(event) |->
                      Stamp(handle_event(event)[i], "input", event.seq)]
       IN  /\ pending' = Tail(pending)
           /\ channel' = IF put = <<>> THEN channel ELSE send(channel, put[1])
           /\ sent' = [sent EXCEPT !.id = @ + Len(put), !.read = @ + 1]
           /\ model' = IF event.type = "Mouse" /\ event.kind = "Moved"
                        THEN [model EXCEPT !.hover_pos = <<event.row, event.col>>]
                        ELSE model
           /\ last' = [NoStep EXCEPT !.branch = "input", !.raw = event, !.put = put,
                                     !.before = model, !.hov = hov]
    /\ UNCHANGED <<pc, term, height, result, error, exit_code, applied, hov,
                   dropped, printed, ticked>>

\* select!: Ok(ready) = spawn_blocking(poll) with Ok(true): read one event and
\* hand it to handle_event.
InputReady ==
    /\ pc = "loop"
    /\ pending # <<>>
    /\ LET event == Head(pending)
           put == [i \in DOMAIN handle_event(event) |->
                      Stamp(handle_event(event)[i], "input", event.seq)]
       IN  /\ pending' = Tail(pending)
           /\ channel' = IF put = <<>> THEN channel ELSE send(channel, put[1])
           /\ sent' = [sent EXCEPT !.id = @ + Len(put), !.read = @ + 1]
           /\ last' = [NoStep EXCEPT !.branch = "input", !.raw = event, !.put = put,
                                     !.before = model, !.hov = hov]
    /\ UNCHANGED <<pc, term, height, model, result, error,
                   exit_code, applied, hov, dropped, printed, ticked>>

\* select!: the poll returns Ok(false): continue.
InputIdle ==
    /\ pc = "loop"
    /\ last' = [NoStep EXCEPT !.branch = "idle", !.before = model, !.hov = hov]
    /\ UNCHANGED <<pc, term, height, pending, channel, model, result,
                   error, exit_code, sent, applied, hov, dropped, printed, ticked>>

\* select!: the poll returns Err(e): return Err("Failed to poll for events").
PollFailed ==
    /\ pc = "loop"
    /\ pc' = "returned"
    /\ result' = "Err"
    /\ error' = "Failed to poll for events"
    /\ last' = [NoStep EXCEPT !.branch = "poll_err", !.before = model, !.hov = hov]
    /\ UNCHANGED <<term, height, pending, channel, model, exit_code,
                   sent, applied, hov, dropped, printed, ticked>>

\* select!: the poll returns Ok(true) and crossterm::event::read()? fails.
ReadFailed ==
    /\ pc = "loop"
    /\ pending # <<>>
    /\ pc' = "returned"
    /\ result' = "Err"
    /\ error' = "event::read"
    /\ last' = [NoStep EXCEPT !.branch = "read_err", !.before = model, !.hov = hov]
    /\ UNCHANGED <<term, height, pending, channel, model, exit_code,
                   sent, applied, hov, dropped, printed, ticked>>

\* -------------------------------------------------------------- the environment
\* The raw events the terminal can report while its height is h: a mouse event
\* is reported at a cell of the screen.
AllRawEvents(h) ==
    {KeyEvent(c, k) : c \in KeyCodes, k \in KeyKinds}
    \cup {MouseEvent(k, cell) : k \in MouseKinds, cell \in {c \in Cells : c[1] < h}}
    \cup {OtherEvent("FocusGained"), OtherEvent("Resize")}

\* The events the user of the run produces: those that are translated. (Of
\* those that are dropped the run sees Event::Resize; SpecInput has them all.)
UserEvents(h) ==
    {e \in AllRawEvents(h) :
        \/ e.type = "Key" /\ e.code = "Esc" /\ e.kind = "Press"
        \/ e.type = "Mouse" /\ e.kind \in {"DownLeft", "Moved"}}

\* The user presses a key or uses the mouse: the terminal holds one more event.
RawArrive ==
    /\ pc = "loop"
    /\ sent.raw < MaxRaw
    /\ Len(pending) < MaxPending
    /\ \E event \in UserEvents(height) :
          pending' = Append(pending, [event EXCEPT !.seq = sent.raw + 1])
    /\ sent' = [sent EXCEPT !.raw = @ + 1]
    /\ UNCHANGED <<pc, term, height, channel, model, result, error,
                   exit_code, applied, hov, last, dropped, printed, ticked>>

\* The terminal is resized: its height changes and it reports Event::Resize.
Resize ==
    /\ pc = "loop"
    /\ sent.raw < MaxRaw
    /\ Len(pending) < MaxPending
    /\ \E h \in Heights \ {height} : height' = h
    /\ pending' = Append(pending, [OtherEvent("Resize") EXCEPT !.seq = sent.raw + 1])
    /\ sent' = [sent EXCEPT !.raw = @ + 1]
    /\ UNCHANGED <<pc, term, channel, model, result, error,
                   exit_code, applied, hov, last, dropped, printed, ticked>>

\* ------------------------------------------------------------ the process boundary
\* impl Drop for Tui, when run_app returns: self.exit().expect(...), then main:
\* exit status 0 for Ok, 1 after printing the error for Err, and 101 when the
\* expect panics. The Tui's fields go with it: the model and both ends of the
\* channel are dropped, and with the process ended the run is no longer
\* observed (pending, sent, applied, hov and last are cleared).
Drop ==
    /\ pc = "returned"
    /\ \E fail \in ExitFailures :
          LET e == exit(term, fail)
          IN  /\ term' = e.term
              /\ exit_code' = IF ~e.ok THEN 101 ELSE IF result = "Ok" THEN 0 ELSE 1
              /\ printed' = IF ~e.ok THEN [by |-> "panic", error |-> fail]
                            ELSE IF result = "Ok" THEN NoPrint
                            ELSE [by |-> "main", error |-> error]
    /\ pc' = "done"
    /\ model' = InitModel
    /\ channel' = <<>>
    /\ pending' = <<>>
    /\ sent' = [id |-> 0, tick |-> 0, frame |-> 0, raw |-> 0, read |-> 0]
    /\ applied' = <<>>
    /\ hov' = NoHover
    /\ dropped' = [dropped EXCEPT !.ready = 0]
    /\ last' = NoStep
    /\ UNCHANGED <<height, result, error, ticked>>

Next ==
    \/ Enter
    \/ TickBranch
    \/ FrameBranch
    \/ RecvBranch
    \/ InputReady
    \/ InputIdle
    \/ PollFailed
    \/ ReadFailed
    \/ RawArrive
    \/ Resize
    \/ Drop

Spec == Init /\ [][Next]_vars

\* The run with the recv branch chosen fairly: select! polls its branches in a
\* random order at each iteration, so a branch that stays ready (a message is
\* on the channel) is not passed over for ever.
SpecFairRecv == Spec /\ WF_vars(RecvBranch)

\* The abandoned poll with a bug: a poll that reports an event takes it off
\* the terminal's queue, and its result is dropped all the same.
AbandonedPoll_Consumes ==
    /\ pc = "loop"
    /\ last.branch \in {"tick", "frame", "recv"}
    /\ \E returned \in {"Ok(true)", "Ok(false)", "Err"} :
          /\ returned = "Ok(true)" => pending # <<>>
          /\ dropped' =
                CASE returned = "Ok(true)" ->
                        [dropped EXCEPT !.ready = Head(pending).seq]
                  [] returned = "Ok(false)" -> dropped
                  [] returned = "Err" -> [dropped EXCEPT !.err = TRUE]
          /\ pending' = IF returned = "Ok(true)" THEN Tail(pending) ELSE pending
    /\ UNCHANGED <<pc, term, height, channel, model, result, error, exit_code,
                   printed, sent, applied, hov, ticked, last>>

\* select!: each iteration spawns a new blocking poll; when another branch
\* completes first the JoinHandle is dropped, the poll runs on to its end and
\* what it returns goes nowhere. A poll only reports the terminal's events,
\* event::read alone takes one off, so pending stays as it is. This is the
\* poll of the last iteration, lost to the tick, frame or recv branch.
AbandonedPoll ==
    /\ pc = "loop"
    /\ last.branch \in {"tick", "frame", "recv"}
    /\ \E returned \in {"Ok(true)", "Ok(false)", "Err"} :
          /\ returned = "Ok(true)" => pending # <<>>
          /\ dropped' =
                CASE returned = "Ok(true)" ->
                        [dropped EXCEPT !.ready = Head(pending).seq]
                  [] returned = "Ok(false)" -> dropped
                  [] returned = "Err" -> [dropped EXCEPT !.err = TRUE]
    /\ UNCHANGED <<pc, term, height, pending, channel, model, result,
                   error, exit_code, sent, applied, hov, last, printed, ticked>>

\* The run with the polls that lost their select observed.
NextPolls ==
    \/ Next
    \/ AbandonedPoll

SpecPolls == Init /\ [][NextPolls]_vars

\* The run, abandoned polls observed, with the input branch chosen fairly: a
\* poll started while the terminal holds an event returns Ok(true) at once, and
\* select! does not pass a branch that is ready at every iteration over for
\* ever.
SpecFairInput == SpecPolls /\ WF_vars(InputReady)

\* The input translation alone: the loop is running, any raw event the terminal
\* can report arrives, and the input branch reads and translates it.
InitInput ==
    /\ pc = "loop"
    /\ term = enter(InitTerm, "none").term
    /\ height \in Heights
    /\ pending = <<>>
    /\ channel = <<>>
    /\ model = InitModel
    /\ result = "Running"
    /\ error = "none"
    /\ exit_code = NoCode
    /\ printed = NoPrint
    /\ sent = [id |-> 0, tick |-> 0, frame |-> 0, raw |-> 0, read |-> 0]
    /\ applied = <<>>
    /\ hov = NoHover
    /\ ticked = NoTicks
    /\ dropped = NoDropped
    /\ last = NoStep

\* The terminal holds one more event, of any kind.
RawArriveAny ==
    /\ pc = "loop"
    /\ sent.raw < MaxRaw
    /\ Len(pending) < MaxPending
    /\ \E event \in AllRawEvents(height) :
          pending' = Append(pending, [event EXCEPT !.seq = sent.raw + 1])
    /\ sent' = [sent EXCEPT !.raw = @ + 1]
    /\ UNCHANGED <<pc, term, height, channel, model, result, error,
                   exit_code, applied, hov, last, dropped, printed, ticked>>

NextInput ==
    \/ RawArriveAny
    \/ InputReady

SpecInput == InitInput /\ [][NextInput]_vars

\* The physics alone: one entity committed with velocity 0, of either variant
\* and at one of these heights above the bottom of the canvas (below its
\* floor, at it, near it and far above it), and Tick applied to the model
\* again and again.
TickYs == {0, 1, 2, 3, 5, 7, 10, 19, 24, 50, 100}

InitTick ==
    /\ pc = "loop"
    /\ term = enter(InitTerm, "none").term
    /\ height = 24
    /\ pending = <<>>
    /\ channel = <<>>
    /\ \E y \in TickYs :
          \E e \in {NewBalloon(Fixed(20), Fixed(y)), NewBrick(Fixed(20), Fixed(y))} :
             /\ model = [InitModel EXCEPT !.entities = <<e>>]
             /\ ticked = Followed(e)
    /\ result = "Running"
    /\ error = "none"
    /\ exit_code = NoCode
    /\ printed = NoPrint
    /\ sent = [id |-> 0, tick |-> 0, frame |-> 0, raw |-> 0, read |-> 0]
    /\ applied = <<>>
    /\ hov = NoHover
    /\ dropped = NoDropped
    /\ last = NoStep

\* Tui::update applied to Message::Tick, the entity followed being the first
\* of the settled sequence.
ApplyTick ==
    /\ ticked.n < MaxTicks
    /\ model' = update_Tick(model).model
    /\ LET e == model.entities[1]
           clamps == TickClamps(e)
       IN  ticked' = [ticked EXCEPT !.n = @ + 1,
                                    !.clamps = IF clamps THEN @ + 1 ELSE @,
                                    !.since = IF clamps THEN 0 ELSE @ + 1,
                                    !.prev = e]
    /\ UNCHANGED <<pc, term, height, pending, channel, result, error, exit_code,
                   printed, sent, applied, hov, dropped, last>>

NextTick == ApplyTick

SpecTick == InitTick /\ [][NextTick]_vars

\* ---------------------------------------------------------------------- claims
\* What the claims read off the state.
Entered == term.entered > 0
Ended == pc = "done"
Applied(kind) == last.branch = "recv" /\ last.msg.kind = kind
Committed == model.entities[Len(model.entities)]
ClickX == Fixed(last.msg.col)
ClickY == Fixed(last.size) - Fixed(last.msg.row)
AtOrigin(e) ==
    IF e.variant = "Balloon"
    THEN [e EXCEPT !.circle.x = 0, !.circle.y = 0]
    ELSE [e EXCEPT !.rectangle.x = 0, !.rectangle.y = 0]
Kinds(msgs) == [i \in DOMAIN msgs |-> <<msgs[i].kind, msgs[i].row, msgs[i].col>>]

\* C1: when the process has ended after the terminal was entered, whatever the
\* path by which the loop was left, the terminal is in none of the modes enter
\* set: raw mode, alternate screen and mouse capture are all off.
C1_TerminalRestoredAtEnd ==
    (Ended /\ Entered) => (~term.raw /\ ~term.alt /\ ~term.mouse)

\* C2: the terminal mode is acquired at most once, no restore effect is ever
\* performed a second time, and when the process has ended after the terminal
\* was entered each restore effect (leave alternate screen, disable mouse
\* capture, disable raw mode) was performed exactly once.
C2_ReleasedExactlyOnce ==
    /\ term.entered <= 1
    /\ term.left_alt <= 1 /\ term.disabled_mouse <= 1 /\ term.disabled_raw <= 1
    /\ (Ended /\ Entered) =>
          (term.left_alt = 1 /\ term.disabled_mouse = 1 /\ term.disabled_raw = 1)

\* C3: update applied to Quit yields the terminate command and leaves the model
\* as it was; update applied to Tick, Render, MouseLeftClick or MouseHoverPos
\* never yields the terminate command.
C3_OnlyQuitTerminates ==
    /\ Applied("Quit") => (last.cmd = "Quit" /\ model = last.before)
    /\ (last.branch = "recv" /\ last.msg.kind # "Quit") => last.cmd # "Quit"

\* C3's case: Quit applied to a model that holds a settled entity.
C3_Witness ==
    /\ Applied("Quit") /\ last.cmd = "Quit"
    /\ Len(model.entities) >= 1

\* C4: the messages update was applied to are in the order they were put on
\* the channel (increasing id), and two of the same source in the order that
\* source produced them (increasing n: the timer's firing, the raw event's
\* arrival).
C4_ArrivalOrder ==
    \A i, j \in DOMAIN applied :
        i < j => /\ applied[i].id < applied[j].id
                 /\ applied[i].src = applied[j].src => applied[i].n < applied[j].n

\* C4's case: four messages applied, from all three sources.
C4_Witness ==
    /\ Len(applied) = 4
    /\ {applied[i].src : i \in DOMAIN applied} = Sources

\* C5, as claimed: once the loop has returned every message that was sent has
\* been applied exactly once, and none is left on the channel.
C5_ConsumedExactlyOnce ==
    pc = "returned" =>
        /\ channel = <<>>
        /\ \A id \in 1 .. sent.id :
              Cardinality({i \in DOMAIN applied : applied[i].id = id}) = 1

\* C5, amended: no message is applied twice; every message sent is either
\* applied or still on the channel, never both, and those on the channel are
\* the newest (none is skipped); nothing is applied after a Quit, so what is
\* on the channel behind it, or when the loop returns, stays unconsumed.
C5_ConsumedAtMostOnce ==
    /\ \A i, j \in DOMAIN applied : applied[i].id = applied[j].id => i = j
    /\ {applied[i].id : i \in DOMAIN applied} = 1 .. Len(applied)
    /\ {channel[i].id : i \in DOMAIN channel} = (Len(applied) + 1) .. sent.id
    /\ Len(applied) + Len(channel) = sent.id
    /\ \A i \in DOMAIN applied : applied[i].kind = "Quit" => i = Len(applied)

\* C5's case: the loop has returned on a Quit with a message behind it on the
\* channel.
C5_Witness ==
    /\ pc = "returned"
    /\ Applied("Quit")
    /\ channel # <<>>
    /\ Len(applied) >= 2

\* C6: MouseLeftClick(row, col) makes the settled sequence one longer, replaces
\* the preview by a new entity at the click, and the entity it commits is at
\* (col, terminal_height - row).
C6_ClickCommitsAtClick ==
    (Applied("MouseLeftClick") /\ last.cmd = "None") =>
        /\ Len(model.entities) = Len(last.before.entities) + 1
        /\ model.hover_entity \in {NewBalloon(ClickX, ClickY), NewBrick(ClickX, ClickY)}
        /\ EntityX(Committed) = ClickX
        /\ EntityY(Committed) = ClickY

\* The click follows a MouseHoverPos at its cell, seen at the same terminal
\* height, with only Tick and Render applied in between.
ClickAfterHover ==
    /\ Applied("MouseLeftClick") /\ last.cmd = "None"
    /\ last.hov.set
    /\ last.hov.row = last.msg.row /\ last.hov.col = last.msg.col
    /\ last.hov.h = last.size

\* C7: a MouseLeftClick(row, col) that follows MouseHoverPos(row, col) at an
\* unchanged height h, with only Tick or Render between, appends an entity at
\* (col, h - row) with velocity 0.
C7_HoverThenClick ==
    ClickAfterHover =>
        /\ Len(model.entities) = Len(last.before.entities) + 1
        /\ EntityX(Committed) = ClickX
        /\ EntityY(Committed) = ClickY
        /\ Committed.velocity_y = 0

\* C7's case, the scenario of the specification: from the initial model with
\* height 24, MouseHoverPos(5, 20), a Tick, MouseLeftClick(5, 20): one settled
\* entity, at (20, 19).
C7_Witness ==
    /\ ClickAfterHover
    /\ last.msg.row = 5 /\ last.msg.col = 20 /\ last.size = 24
    /\ Len(applied) = 3 /\ applied[1].kind = "MouseHoverPos" /\ applied[2].kind = "Tick"
    /\ Len(model.entities) = 1
    /\ EntityX(model.entities[1]) = Fixed(20) /\ EntityY(model.entities[1]) = Fixed(19)

\* C8: MouseHoverPos(row, col) leaves the settled sequence and the FPS sampler
\* as they were and the preview's variant, size, colour and velocity too; the
\* pointer position becomes (row, col) and, terminal.size() succeeding, the
\* preview's position (col, terminal_height - row).
C8_HoverFrame ==
    Applied("MouseHoverPos") =>
        /\ model.entities = last.before.entities
        /\ model.fps_counter = last.before.fps_counter
        /\ AtOrigin(model.hover_entity) = AtOrigin(last.before.hover_entity)
        /\ model.hover_pos = <<last.msg.row, last.msg.col>>
        /\ last.cmd = "None" =>
              /\ EntityX(model.hover_entity) = ClickX
              /\ EntityY(model.hover_entity) = ClickY

\* C8's case: a MouseHoverPos applied when the settled sequence holds an entity
\* and the preview is a brick, which it moves.
C8_Witness ==
    /\ Applied("MouseHoverPos") /\ last.cmd = "None"
    /\ Len(model.entities) >= 1
    /\ model.hover_entity.variant = "Brick"
    /\ last.before.hover_entity # model.hover_entity

\* C9: every settled entity is at or above its floor, the radius of a balloon
\* and the height of a brick.
C9_AboveFloor ==
    \A i \in DOMAIN model.entities :
        EntityY(model.entities[i]) >= EntityFloor(model.entities[i])

\* C10: the input branch puts at most one message on the channel for the raw
\* event it reads: Quit for an Escape press, MouseLeftClick(row, column) for a
\* left button down, MouseHoverPos(row, column) for a mouse move, and nothing
\* for every other event.
C10_InputTranslation ==
    last.branch = "input" =>
        LET e == last.raw
            expected ==
                IF e.type = "Key" /\ e.code = "Esc" /\ e.kind = "Press"
                    THEN <<(<<"Quit", 0, 0>>)>>
                ELSE IF e.type = "Mouse" /\ e.kind = "DownLeft"
                    THEN <<(<<"MouseLeftClick", e.row, e.col>>)>>
                ELSE IF e.type = "Mouse" /\ e.kind = "Moved"
                    THEN <<(<<"MouseHoverPos", e.row, e.col>>)>>
                ELSE <<>>
        IN  /\ Len(last.put) <= 1
            /\ Kinds(last.put) = expected
            /\ Len(channel) = sent.id
            /\ last.put # <<>> => channel[Len(channel)] = last.put[1]

\* C10's case: a raw event that is dropped (the release of Escape) read after
\* one that was translated.
C10_Witness ==
    /\ last.branch = "input"
    /\ last.raw.type = "Key" /\ last.raw.code = "Esc" /\ last.raw.kind = "Release"
    /\ last.put = <<>>
    /\ Len(channel) = 1

\* C11: a failure of a source is fatal at once: after a failed poll or a failed
\* read the loop has returned an error with the model as it was, and once any
\* poll the loop started has failed, the poll of an iteration another branch
\* won included, the loop is no longer running and run has returned an error.
C11_FailureIsFatal ==
    /\ last.branch \in {"poll_err", "read_err"} =>
          (pc = "returned" /\ result = "Err" /\ model = last.before)
    /\ dropped.err => (pc # "loop" /\ result = "Err")

\* C12: run returns Ok only by update yielding terminate for a Quit, and then
\* when exit succeeds; the process ends with status 0 exactly when run returned
\* Ok and no error occurred: an error of startup, of a source (the poll of any
\* iteration, the read), of update or view, or of the teardown in run or in
\* Drop gives a status other than 0, and a message naming an error has been
\* printed, by main or by the panic.
C12_ExitStatus ==
    /\ (pc = "returned" /\ result = "Ok") =>
          (Applied("Quit") /\ last.cmd = "Quit" /\ error = "none")
    /\ (pc = "returned" /\ result = "Err") => error # "none"
    /\ Ended =>
          /\ exit_code = 0 <=>
                (result = "Ok" /\ error = "none" /\ ~dropped.err /\ printed = NoPrint)
          /\ (error # "none" \/ dropped.err) => exit_code # 0
          /\ exit_code # 0 =>
                \/ printed = [by |-> "main", error |-> error] /\ error # "none"
                \/ printed.by = "panic" /\ printed.error \in ExitFailures \ {"none"}

\* The entity followed, and its being at rest on its floor.
Followed1 == model.entities[1]
AtFloor(e) == EntityY(e) = EntityFloor(e) /\ e.velocity_y = 0
Gravity(e) == IF e.variant = "Balloon" THEN BalloonGravity ELSE BrickGravity

\* C13, as claimed: an entity of either variant that a Tick has clamped to its
\* floor is at its floor with velocity 0 after every later Tick.
C13_ClampedStaysSettled ==
    ticked.clamps >= 1 => AtFloor(Followed1)

\* C13, amended: a brick that a Tick has clamped is at its floor with velocity
\* 0 after every later Tick, each of which clamps it again. A balloon is
\* clamped at most once: the Ticks after the clamp lift it off its floor, its
\* velocity 0.10 times their number.
C13_BrickStaysBalloonRises ==
    ticked.clamps >= 1 =>
        IF Followed1.variant = "Brick"
        THEN AtFloor(Followed1) /\ ticked.since = 0
        ELSE /\ ticked.clamps = 1
             /\ ticked.since = 0 => AtFloor(Followed1)
             /\ ticked.since >= 1 =>
                   /\ EntityY(Followed1) > EntityFloor(Followed1)
                   /\ Followed1.velocity_y = ticked.since * BalloonGravity
                   /\ EntityY(Followed1) = EntityFloor(Followed1)
                         + (BalloonGravity * ticked.since * (ticked.since + 1)) \div 2

\* C13's case: a brick committed above its floor has fallen, been clamped and
\* had two more Ticks.
C13_Witness ==
    /\ Followed1.variant = "Brick"
    /\ EntityY(ticked.first) > EntityFloor(ticked.first)
    /\ ticked.clamps >= 3
    /\ AtFloor(Followed1)

\* C14: an entity committed with velocity 0 and clamped by none of its n Ticks
\* has velocity n x 0.10 (balloon) or n x 0.75 (brick); the last Tick moved a
\* balloon up and a brick down by the new velocity, so that a brick's y did
\* not increase; a brick committed at y = 100 has velocity 3.75 after 5 Ticks.
C14_Accumulation ==
    ticked.clamps = 0 =>
        /\ ticked.first.velocity_y = 0
        /\ Followed1.velocity_y = ticked.n * Gravity(Followed1)
        /\ ticked.n >= 1 =>
              IF Followed1.variant = "Balloon"
              THEN EntityY(Followed1) = EntityY(ticked.prev) + Followed1.velocity_y
              ELSE /\ EntityY(Followed1) = EntityY(ticked.prev) - Followed1.velocity_y
                   /\ EntityY(Followed1) <= EntityY(ticked.prev)
        /\ (ticked.first = NewBrick(Fixed(20), Fixed(100)) /\ ticked.n = 5) =>
              Followed1.velocity_y = 375

\* C14's case, the scenario of the specification: 5 Ticks of a brick committed
\* at y = 100, none clamping it.
C14_Witness ==
    /\ ticked.first = NewBrick(Fixed(20), Fixed(100))
    /\ ticked.n = 5 /\ ticked.clamps = 0
    /\ Followed1.velocity_y = 375
    /\ EntityY(Followed1) = Fixed(100) - 1125

\* The message the loop receives next is a MouseLeftClick.
ClickNext == pc = "loop" /\ channel # <<>> /\ Head(channel).kind = "MouseLeftClick"

\* C15: after MouseLeftClick(row, col), terminal.size() succeeding, the preview
\* is a new entity at (col, terminal_height - row), wherever the entity just
\* committed is: a balloon of radius 1 or a brick of width 1 and height 1,
\* with velocity 0; and whenever a click is about to be received, receiving
\* it can leave a balloon and can leave a brick as the preview.
C15_FreshPreviewAtClick ==
    /\ (Applied("MouseLeftClick") /\ last.cmd = "None") =>
          /\ model.hover_entity \in {NewBalloon(ClickX, ClickY), NewBrick(ClickX, ClickY)}
          /\ model.hover_entity.velocity_y = 0
    /\ ClickNext =>
          /\ ENABLED (RecvBranch /\ model'.hover_entity = NewBalloon(ClickX, ClickY)')
          /\ ENABLED (RecvBranch /\ model'.hover_entity = NewBrick(ClickX, ClickY)')

\* C15's case: a click whose committed entity is somewhere else than the
\* click, and the new preview, a brick, at the click.
C15_Witness ==
    /\ Applied("MouseLeftClick") /\ last.cmd = "None"
    /\ Len(model.entities) >= 2
    /\ <<EntityX(Committed), EntityY(Committed)>> # <<ClickX, ClickY>>
    /\ model.hover_entity = NewBrick(ClickX, ClickY)

\* An entity but for its y and its velocity.
ButYAndVelocity(e) ==
    IF e.variant = "Balloon"
    THEN [e EXCEPT !.circle.y = 0, !.velocity_y = 0]
    ELSE [e EXCEPT !.rectangle.y = 0, !.velocity_y = 0]

\* C16: Tick leaves the preview, the pointer position, the FPS sampler and the
\* length of the settled sequence as they were, and of each settled entity all
\* but its y and velocity; the preview's velocity is 0 in every state; Render
\* leaves the settled sequence, the preview and the pointer position as they
\* were (it samples the FPS and draws).
C16_TickAndRenderFrame ==
    /\ Applied("Tick") =>
          /\ last.cmd = "None"
          /\ model.hover_entity = last.before.hover_entity
          /\ model.hover_pos = last.before.hover_pos
          /\ model.fps_counter = last.before.fps_counter
          /\ Len(model.entities) = Len(last.before.entities)
          /\ \A i \in DOMAIN model.entities :
                ButYAndVelocity(model.entities[i]) = ButYAndVelocity(last.before.entities[i])
    /\ model.hover_entity.velocity_y = 0
    /\ Applied("Render") =>
          /\ model.entities = last.before.entities
          /\ model.hover_entity = last.before.hover_entity
          /\ model.hover_pos = last.before.hover_pos
          /\ model.fps_counter = FpsTick(last.before.fps_counter)

\* C16's case: a Tick that moved a settled entity while the preview, a brick
\* above its floor, stayed where the pointer put it.
C16_Witness ==
    /\ Applied("Tick")
    /\ model.entities # last.before.entities
    /\ model.hover_entity.variant = "Brick"
    /\ EntityY(model.hover_entity) > EntityFloor(model.hover_entity)

\* C17: in every step of the run (the process's end, which drops the model,
\* aside) the settled sequence does not get shorter; it gets longer only in
\* the step that applies update to a MouseLeftClick, and then by one entity
\* at its end; and the entity at each index is still there after the step with
\* the same variant, x coordinate and size.
C17_AppendOnly ==
    [][pc' # "done" =>
          /\ Len(model'.entities) >= Len(model.entities)
          /\ Len(model'.entities) > Len(model.entities) =>
                /\ Len(model'.entities) = Len(model.entities) + 1
                /\ last'.branch = "recv" /\ last'.msg.kind = "MouseLeftClick"
          /\ \A i \in DOMAIN model.entities :
                ButYAndVelocity(model'.entities[i]) = ButYAndVelocity(model.entities[i])]_vars

\* C17's case: two entities of different variants settled by two clicks, the
\* first where it was committed, and a Tick applied to them since.
C17_Witness ==
    /\ Applied("Tick")
    /\ Len(model.entities) = 2
    /\ model.entities[1].variant = "Balloon" /\ EntityX(model.entities[1]) = 0
    /\ model.entities[2].variant = "Brick"

\* C18: in every step of the run (the process's end aside) the model changes
\* only if the step receives one message from the channel and applies update
\* to it; a step of the tick, frame or input branch leaves the model and the
\* log of applied messages as they were and only appends what it sends to the
\* channel; and no step applies update to more than one message.
C18_SingleConsumptionPoint ==
    [][pc' # "done" =>
          /\ model' # model =>
                /\ pc = "loop" /\ channel # <<>>
                /\ last'.branch = "recv" /\ last'.msg = Head(channel)
                /\ channel' = Tail(channel)
                /\ applied' = Append(applied, Stamps(Head(channel)))
          /\ (last' # last /\ last'.branch \in {"tick", "frame", "input", "idle"}) =>
                /\ model' = model
                /\ applied' = applied
                /\ channel' = channel \o last'.put
          /\ Len(applied') <= Len(applied) + 1]_vars

\* C18's case: the input branch has put a message on the channel, behind
\* another, when the model has already been changed by an applied message.
C18_Witness ==
    /\ last.branch = "input" /\ last.put # <<>>
    /\ Len(channel) >= 2
    /\ Len(applied) >= 1
    /\ model # InitModel /\ model = last.before

\* A Quit is on the channel of the running loop.
QuitQueued == pc = "loop" /\ \E i \in DOMAIN channel : channel[i].kind = "Quit"

\* C19: with the recv branch chosen fairly, once a Quit is on the channel the
\* loop returns; when the Quit has been applied every message sent before it
\* has been applied, in order, update has yielded terminate and run has
\* returned; and while the loop runs no Quit has been applied, so that update
\* is applied to nothing after the one that yielded terminate.
C19_QuitReturns ==
    /\ [](Applied("Quit") =>
            /\ last.cmd = "Quit" /\ pc = "returned"
            /\ [i \in DOMAIN applied |-> applied[i].id] = [i \in 1 .. last.msg.id |-> i])
    /\ [](pc = "loop" => \A i \in DOMAIN applied : applied[i].kind # "Quit")
    /\ (QuitQueued ~> pc # "loop")

\* C19's case: a Quit that was on the channel behind two other messages has
\* been applied after them, and run has returned Ok.
C19_Witness ==
    /\ pc = "returned" /\ result = "Ok"
    /\ Applied("Quit") /\ last.msg.id = 3
    /\ Len(applied) = 3

\* The messages of the input source among msgs, as the arrival numbers of the
\* raw events they translate.
RECURSIVE InputNs(_)
InputNs(msgs) ==
    IF msgs = <<>> THEN <<>>
    ELSE IF Head(msgs).src = "input" THEN <<Head(msgs).n>> \o InputNs(Tail(msgs))
    ELSE InputNs(Tail(msgs))

\* The raw event with arrival number n is held unread by the terminal, and the
\* input branch would translate it to a message.
PendingTranslated(n) ==
    \E i \in DOMAIN pending : pending[i].seq = n /\ handle_event(pending[i]) # <<>>

\* C20: whatever polls were abandoned, the terminal holds exactly the raw
\* events not yet read, in the order they arrived; the k-th read returns the
\* k-th event that arrived; the event a dropped poll reported is still held
\* unless a read has returned it since; the messages of the input branch are
\* on the channel in the order of their raw events, at most one for each; and
\* with the input branch chosen fairly, while the loop runs every event held
\* that translates to a message is read and its message put on the channel.
C20_NoInputLost ==
    /\ [](pc = "loop" =>
            /\ Len(pending) = sent.raw - sent.read
            /\ \A i \in DOMAIN pending : pending[i].seq = sent.read + i
            /\ last.branch = "input" =>
                  /\ last.raw.seq = sent.read
                  /\ last.put # <<>> =>
                        /\ last.put[1].n = last.raw.seq
                        /\ channel # <<>> /\ channel[Len(channel)] = last.put[1]
            /\ dropped.ready > sent.read =>
                  \E i \in DOMAIN pending : pending[i].seq = dropped.ready
            /\ LET ns == InputNs(channel)
               IN  \A i, j \in DOMAIN ns : i < j => ns[i] < ns[j]
            /\ \A i \in DOMAIN channel, j \in DOMAIN applied :
                  (channel[i].src = "input" /\ applied[j].src = "input")
                      => applied[j].n < channel[i].n)
    /\ \A n \in 1 .. MaxRaw :
          PendingTranslated(n) ~>
              (pc # "loop" \/ (sent.read >= n /\ n \in {applied[i].n : i \in
                   {j \in DOMAIN applied : applied[j].src = "input"}}
                   \cup {channel[i].n : i \in {j \in DOMAIN channel : channel[j].src = "input"}}))

\* C20's case: the poll of an iteration another branch won reported the second
\* raw event and was dropped; a later poll won, the event was read, and its
\* message is on the channel behind that of the first.
C20_Witness ==
    /\ pc = "loop"
    /\ dropped.ready = 2
    /\ last.branch = "input" /\ last.raw.seq = 2 /\ last.put # <<>>
    /\ InputNs(channel) = <<1, 2>>

====
